---- MODULE Spec2Model ----
(***************************************************************************)
(* button-compliant.vue: the polymorphic accessible button component.     *)
(* The component's props, the attributes its template binds on the        *)
(* rendered element, its four event handlers and the two exposed          *)
(* operations focus() and blur().                                         *)
(***************************************************************************)
EXTENDS Integers, Sequences, FiniteSets, TLC

VARIABLES
    props,       \* the resolved props of defineProps (defaults applied)
    vnode,       \* the attributes the template binds on the rendered element
    lifecycle,   \* "created" | "mounted" | "unmounted"
    el,          \* the template ref: null until mounted, null again after unmount
    domFocused,  \* whether the rendered element holds the platform focus
    last,        \* the event dispatch made by the latest step (NoDispatch if none)
    call,        \* the exposed operation called by the latest step (NoCall if none)
    nEvents,     \* number of platform events dispatched to the handlers so far
    clicksOK,    \* pointer clicks received while neither disabled nor loading
    clickNotifs  \* 'click' notifications emitted that carry a pointer event

vars == <<props, vnode, lifecycle, el, domFocused, last, call, nEvents, clicksOK, clickNotifs>>

\* Bound on the number of platform events dispatched in one behaviour.
MaxEvents == 3

----------------------------------------------------------------------------
\* Optional values: undefined is None, a value v is Some(v).
None == <<>>
Some(v) == <<v>>

\* JavaScript truthiness of an optional string: undefined and '' are falsy.
Truthy(o) == o # None /\ o[1] # ""

null == "null"
Element == "HTMLElement"

----------------------------------------------------------------------------
\* defineProps: the props the model varies, with the values a caller may pass.
\* None stands for a prop that is not passed (or passed as undefined).
PropValues ==
    [ tag       |-> {None, Some(""), Some("button"), Some("a"), Some("div")},
      type      |-> {None, Some("button"), Some("submit")},
      disabled  |-> BOOLEAN,
      loading   |-> BOOLEAN,
      href      |-> {None, Some(""), Some("/docs")},
      target    |-> {None, Some("_blank"), Some("_self")},
      rel       |-> {None, Some(""), Some("nofollow")},
      name      |-> {None, Some("field")},
      value     |-> {None, Some("v")},
      prevent   |-> BOOLEAN,
      stop      |-> BOOLEAN,
      autofocus |-> BOOLEAN ]

\* The default of each prop, as declared in defineProps.
PropDefaults ==
    [ tag       |-> Some("button"),
      type      |-> Some("button"),
      disabled  |-> FALSE,
      loading   |-> FALSE,
      href      |-> None,
      target    |-> None,
      rel       |-> None,
      name      |-> None,
      value     |-> None,
      prevent   |-> FALSE,
      stop      |-> FALSE,
      autofocus |-> FALSE ]

BooleanProps == {"disabled", "loading", "prevent", "stop", "autofocus"}

\* A prop passed as undefined takes its declared default.
ResolveProp(n, v) ==
    IF n \in BooleanProps THEN v
    ELSE IF v = None THEN PropDefaults[n] ELSE v

\* The props that decide the rendered attributes, and those that decide
\* the handlers' behaviour.
RenderProps == {"tag", "type", "disabled", "loading", "href", "target", "rel", "name", "value"}
EventProps == {"tag", "href", "disabled", "loading", "prevent", "stop", "autofocus"}

\* All resolved prop records that vary the props in S and keep the others
\* at their defaults.
PropsOver(S) ==
    { p \in [ tag : {ResolveProp("tag", v) : v \in PropValues.tag},
              type : {ResolveProp("type", v) : v \in PropValues.type},
              disabled : BOOLEAN, loading : BOOLEAN,
              href : PropValues.href, target : PropValues.target,
              rel : PropValues.rel, name : PropValues.name,
              value : PropValues.value,
              prevent : BOOLEAN, stop : BOOLEAN, autofocus : BOOLEAN ] :
        \A n \in (DOMAIN PropDefaults) \ S : p[n] = PropDefaults[n] }

----------------------------------------------------------------------------
\* The computed values of <script setup>.

isNativeButton(p) == p.tag = Some("button") \/ p.tag = None

\* Variant of computedTag that takes every defined href, '' included, as present.
computedTagAnyHref(p) ==
    IF p.href # None /\ (~Truthy(p.tag) \/ p.tag = Some("button")) THEN "a"
    ELSE IF Truthy(p.tag) THEN p.tag[1] ELSE "button"

computedTag(p) ==
    IF Truthy(p.href) /\ (~Truthy(p.tag) \/ p.tag = Some("button")) THEN "a"
    ELSE IF Truthy(p.tag) THEN p.tag[1] ELSE "button"

buttonType(p) == IF isNativeButton(p) THEN p.type ELSE None

\* Variant of computedRel whose default for '_blank' omits 'noreferrer'.
computedRelNoReferrer(p) ==
    IF Truthy(p.rel) THEN p.rel
    ELSE IF p.target = Some("_blank") THEN Some("noopener")
    ELSE None

computedRel(p) ==
    IF Truthy(p.rel) THEN p.rel
    ELSE IF p.target = Some("_blank") THEN Some("noopener noreferrer")
    ELSE None

isDisabledOrLoading(p) == p.disabled \/ p.loading

tabIndex(p) ==
    IF isNativeButton(p) THEN None
    ELSE IF p.disabled THEN Some(-1) ELSE Some(0)

computedRole(p) ==
    IF isNativeButton(p) THEN None
    ELSE IF computedTag(p) = "a" THEN None
    ELSE Some("button")

\* The attribute bindings of the template's component(:is=...) element.
Render(p) ==
    [ is           |-> computedTag(p),
      type         |-> buttonType(p),
      href         |-> p.href,
      target       |-> p.target,
      rel          |-> computedRel(p),
      name         |-> IF isNativeButton(p) THEN p.name ELSE None,
      value        |-> IF isNativeButton(p) THEN p.value ELSE None,
      disabled     |-> IF isNativeButton(p) THEN Some(p.disabled) ELSE None,
      ariaDisabled |-> IF p.disabled THEN Some("true") ELSE None,
      tabindex     |-> tabIndex(p),
      role         |-> computedRole(p) ]

----------------------------------------------------------------------------
\* Platform events and the notifications emitted for them.

Keys == {"Enter", " ", "Tab"}

NewEvent(kind, key) ==
    [ id |-> nEvents + 1, kind |-> kind, key |-> key,
      defaultPrevented |-> FALSE, propagationStopped |-> FALSE ]

preventDefault(event) == [event EXCEPT !.defaultPrevented = TRUE]
stopPropagation(event) == [event EXCEPT !.propagationStopped = TRUE]

\* emit(name, event): the notification carries the event object as it is
\* when emit is called.
Emit(name, event) == [name |-> name, event |-> event]

NoEvent == [ id |-> 0, kind |-> "none", key |-> "",
             defaultPrevented |-> FALSE, propagationStopped |-> FALSE ]
NoDispatch == [dispatched |-> NoEvent, event |-> NoEvent, emits |-> <<>>]
NoCall == [op |-> "none", mounted |-> FALSE, forwarded |-> FALSE, threw |-> FALSE]

\* Variant of onClick that returns without cancelling the default while
\* disabled or loading.
onClickNoCancel(p, event) ==
    IF p.disabled \/ p.loading
    THEN [event |-> event, emits |-> <<>>]
    ELSE LET e1 == IF p.prevent THEN preventDefault(event) ELSE event
             e2 == IF p.stop THEN stopPropagation(e1) ELSE e1
         IN  [event |-> e2, emits |-> <<Emit("click", e2)>>]

\* Variant of onClick that applies the stop flag before the suppression check.
onClickStopFirst(p, event) ==
    LET e0 == IF p.stop THEN stopPropagation(event) ELSE event IN
    IF p.disabled \/ p.loading
    THEN [event |-> preventDefault(e0), emits |-> <<>>]
    ELSE LET e1 == IF p.prevent THEN preventDefault(e0) ELSE e0
         IN  [event |-> e1, emits |-> <<Emit("click", e1)>>]

\* Variant of onKeyDown that forwards 'keydown' only after the suppression check.
onKeyDownGated(p, event) ==
    LET first == <<Emit("keydown", event)>> IN
    IF p.disabled \/ p.loading THEN [event |-> event, emits |-> <<>>]
    ELSE IF ~(p.tag = Some("button") \/ p.tag = None)
            /\ (event.key = "Enter" \/ event.key = " ")
         THEN LET e1 == preventDefault(event)
              IN  [event |-> e1, emits |-> Append(first, Emit("click", e1))]
         ELSE [event |-> event, emits |-> first]

\* Variant of focus without the optional chaining: el.value.focus(options).
focusUnguarded(elv) ==
    IF elv = null THEN [forwarded |-> FALSE, threw |-> TRUE]
    ELSE [forwarded |-> TRUE, threw |-> FALSE]

\* Each handler yields the event as the handler leaves it and the
\* notifications it emitted, in order.
onClick(p, event) ==
    IF isDisabledOrLoading(p)
    THEN [event |-> preventDefault(event), emits |-> <<>>]
    ELSE LET e1 == IF p.prevent THEN preventDefault(event) ELSE event
             e2 == IF p.stop THEN stopPropagation(e1) ELSE e1
         IN  [event |-> e2, emits |-> <<Emit("click", e2)>>]

onKeyDown(p, event) ==
    LET first == <<Emit("keydown", event)>> IN
    IF isDisabledOrLoading(p) THEN [event |-> event, emits |-> first]
    ELSE IF ~isNativeButton(p) /\ (event.key = "Enter" \/ event.key = " ")
         THEN LET e1 == preventDefault(event)
              IN  [event |-> e1, emits |-> Append(first, Emit("click", e1))]
         ELSE [event |-> event, emits |-> first]

onFocus(p, event) == [event |-> event, emits |-> <<Emit("focus", event)>>]

onBlur(p, event) == [event |-> event, emits |-> <<Emit("blur", event)>>]

\* The exposed operations: el.value?.focus(options) and el.value?.blur().
\* forwarded: the call reached the element; threw: the call raised.
focus(elv) ==
    IF elv = null THEN [forwarded |-> FALSE, threw |-> FALSE]
    ELSE [forwarded |-> TRUE, threw |-> FALSE]

blur(elv) ==
    IF elv = null THEN [forwarded |-> FALSE, threw |-> FALSE]
    ELSE [forwarded |-> TRUE, threw |-> FALSE]

----------------------------------------------------------------------------
\* Steps.

CountClicks(emits, kind) ==
    Cardinality({i \in 1..Len(emits) :
                    emits[i].name = "click" /\ emits[i].event.kind = kind})

\* The platform dispatches event to the handler whose result is r.
Dispatch(event, r) ==
    /\ last' = [dispatched |-> event, event |-> r.event, emits |-> r.emits]
    /\ nEvents' = nEvents + 1
    /\ clicksOK' = IF event.kind = "click" /\ ~props.disabled /\ ~props.loading
                   THEN clicksOK + 1 ELSE clicksOK
    /\ clickNotifs' = clickNotifs + CountClicks(r.emits, "click")

NoDispatchStep ==
    /\ last' = NoDispatch
    /\ UNCHANGED <<nEvents, clicksOK, clickNotifs>>

\* The parent changes one prop; the computed values are re-evaluated and
\* the element is patched.
UpdateProp(S) ==
    \E n \in S : \E v \in PropValues[n] :
        /\ lifecycle # "unmounted"
        /\ props' = [props EXCEPT ![n] = ResolveProp(n, v)]
        /\ props' # props
        /\ vnode' = Render(props')
        /\ call' = NoCall
        /\ NoDispatchStep
        /\ UNCHANGED <<lifecycle, el, domFocused>>

UpdateEventProp == UpdateProp(EventProps)
UpdateRenderProp == UpdateProp(RenderProps)

\* el.focus() on the rendered element: the platform decides whether the
\* element takes the focus; if it does, the focus event is dispatched
\* synchronously to onFocus.
PlatformFocus ==
    \E moved \in BOOLEAN :
        IF moved /\ ~domFocused /\ nEvents < MaxEvents
        THEN /\ domFocused' = TRUE
             /\ LET ev == NewEvent("focus", "") IN Dispatch(ev, onFocus(props, ev))
        ELSE /\ moved = FALSE
             /\ UNCHANGED domFocused
             /\ NoDispatchStep

\* el.blur() on the rendered element: a focused element loses the focus
\* and the blur event is dispatched synchronously to onBlur.
PlatformBlur ==
    IF domFocused /\ nEvents < MaxEvents
    THEN /\ domFocused' = FALSE
         /\ LET ev == NewEvent("blur", "") IN Dispatch(ev, onBlur(props, ev))
    ELSE /\ UNCHANGED domFocused
         /\ NoDispatchStep

\* The component is mounted: the template ref is set, then onMounted runs.
Mount ==
    /\ lifecycle = "created"
    /\ lifecycle' = "mounted"
    /\ el' = Element
    /\ call' = NoCall
    /\ IF props.autofocus /\ focus(Element).forwarded
       THEN PlatformFocus
       ELSE UNCHANGED domFocused /\ NoDispatchStep
    /\ UNCHANGED <<props, vnode>>

\* The component is unmounted: the template ref is reset to null.
Unmount ==
    /\ lifecycle = "mounted"
    /\ lifecycle' = "unmounted"
    /\ el' = null
    /\ domFocused' = FALSE
    /\ call' = NoCall
    /\ NoDispatchStep
    /\ UNCHANGED <<props, vnode>>

\* @click
PointerClick ==
    /\ lifecycle = "mounted"
    /\ nEvents < MaxEvents
    /\ LET ev == NewEvent("click", "") IN Dispatch(ev, onClick(props, ev))
    /\ call' = NoCall
    /\ UNCHANGED <<props, vnode, lifecycle, el, domFocused>>

\* @keydown
KeyPress ==
    \E k \in Keys :
        /\ lifecycle = "mounted"
        /\ nEvents < MaxEvents
        /\ LET ev == NewEvent("keydown", k) IN Dispatch(ev, onKeyDown(props, ev))
        /\ call' = NoCall
        /\ UNCHANGED <<props, vnode, lifecycle, el, domFocused>>

\* @focus: the user moves the focus to the element.
FocusIn ==
    /\ lifecycle = "mounted"
    /\ nEvents < MaxEvents
    /\ ~domFocused
    /\ domFocused' = TRUE
    /\ LET ev == NewEvent("focus", "") IN Dispatch(ev, onFocus(props, ev))
    /\ call' = NoCall
    /\ UNCHANGED <<props, vnode, lifecycle, el>>

\* @blur: the user moves the focus away from the element.
FocusOut ==
    /\ lifecycle = "mounted"
    /\ nEvents < MaxEvents
    /\ domFocused
    /\ domFocused' = FALSE
    /\ LET ev == NewEvent("blur", "") IN Dispatch(ev, onBlur(props, ev))
    /\ call' = NoCall
    /\ UNCHANGED <<props, vnode, lifecycle, el>>

\* A holder of the component ref calls the exposed focus().
CallFocus ==
    LET r == focus(el) IN
    /\ call' = [op |-> "focus", mounted |-> el # null,
                forwarded |-> r.forwarded, threw |-> r.threw]
    /\ IF r.forwarded THEN PlatformFocus
       ELSE UNCHANGED domFocused /\ NoDispatchStep
    /\ UNCHANGED <<props, vnode, lifecycle, el>>

\* A holder of the component ref calls the exposed blur().
CallBlur ==
    LET r == blur(el) IN
    /\ call' = [op |-> "blur", mounted |-> el # null,
                forwarded |-> r.forwarded, threw |-> r.threw]
    /\ IF r.forwarded THEN PlatformBlur
       ELSE UNCHANGED domFocused /\ NoDispatchStep
    /\ UNCHANGED <<props, vnode, lifecycle, el>>

----------------------------------------------------------------------------
\* Specifications.

InitWith(S) ==
    /\ props \in PropsOver(S)
    /\ vnode = Render(props)
    /\ lifecycle = "created"
    /\ el = null
    /\ domFocused = FALSE
    /\ last = NoDispatch
    /\ call = NoCall
    /\ nEvents = 0
    /\ clicksOK = 0
    /\ clickNotifs = 0

\* The component instance: events, lifecycle and exposed operations.
Init == InitWith(EventProps)

Next ==
    \/ UpdateEventProp
    \/ Mount
    \/ Unmount
    \/ PointerClick
    \/ KeyPress
    \/ FocusIn
    \/ FocusOut
    \/ CallFocus
    \/ CallBlur

Spec == Init /\ [][Next]_vars

\* The rendered attributes as a function of the props: a component created
\* with no prop passed, whose parent then sets the props that the template
\* reads, one at a time.
InitRender == InitWith({})

NextRender == UpdateRenderProp

SpecRender == InitRender /\ [][NextRender]_vars

----------------------------------------------------------------------------
\* Properties of the handlers (specification Spec).  The props in force
\* when the latest dispatch was handled are the current props: a prop
\* update clears the record of the latest dispatch.

Suppressed == props.disabled \/ props.loading

ActivationAttempt ==
    \/ last.dispatched.kind = "click"
    \/ last.dispatched.kind = "keydown" /\ last.dispatched.key \in {"Enter", " "}

ClickNotifications ==
    {i \in 1..Len(last.emits) : last.emits[i].name = "click"}

\* C1 as stated: while disabled or loading, an activation attempt (a pointer
\* click, or a key press of Enter or Space) produces no 'click' notification
\* and preventDefault is called on its event.
C1Original ==
    (ActivationAttempt /\ Suppressed) =>
        /\ ClickNotifications = {}
        /\ last.event.defaultPrevented

\* C1 amended: while disabled or loading, an activation attempt of either
\* kind produces no 'click' notification; preventDefault is called on a
\* pointer click, and onKeyDown leaves the key event's default untouched.
C1Amended ==
    (ActivationAttempt /\ Suppressed) =>
        /\ ClickNotifications = {}
        /\ last.dispatched.kind = "click" => last.event.defaultPrevented
        /\ last.dispatched.kind = "keydown" => ~last.event.defaultPrevented

C1Witness ==
    /\ props.loading /\ ~props.disabled
    /\ last.dispatched.kind = "keydown" /\ last.dispatched.key = "Enter"
    /\ vnode.is = "div"
    /\ ClickNotifications = {}
    /\ ~last.event.defaultPrevented

\* C2 as stated: on a rendered element other than 'button', not disabled and
\* not loading, a keydown of Enter or Space produces exactly one 'click'
\* notification and calls preventDefault; any other key produces none.
C2Claim ==
    (last.dispatched.kind = "keydown" /\ vnode.is # "button" /\ ~Suppressed) =>
        IF last.dispatched.key \in {"Enter", " "}
        THEN Cardinality(ClickNotifications) = 1 /\ last.event.defaultPrevented
        ELSE ClickNotifications = {}

\* C7: every keydown, focus or blur event produces exactly one notification
\* of the same name, carrying the event as it was dispatched, whatever
\* disabled and loading are; it is the first notification of the dispatch,
\* so a derived 'click' can only follow it.
C7Theorem ==
    last.dispatched.kind \in {"keydown", "focus", "blur"} =>
        /\ Len(last.emits) >= 1
        /\ last.emits[1] = [name |-> last.dispatched.kind, event |-> last.dispatched]
        /\ \A i \in 2..Len(last.emits) : last.emits[i].name = "click"
        /\ last.event.id = last.dispatched.id

C7Witness ==
    /\ props.disabled
    /\ vnode.is = "div"
    /\ last.dispatched.kind = "keydown" /\ last.dispatched.key = " "
    /\ last.emits = <<[name |-> "keydown", event |-> last.dispatched]>>

\* C9: focus() and blur() called while el is null raise nothing, reach no
\* element, emit nothing and change no state; called on a mounted element
\* they reach it; no call ever raises.
C9Theorem ==
    /\ [](~call.threw)
    /\ []((call.op # "none" /\ call.mounted) => call.forwarded)
    /\ [][(call'.op # "none" /\ el = null) =>
            /\ ~call'.forwarded
            /\ last' = NoDispatch
            /\ UNCHANGED <<props, vnode, lifecycle, el, domFocused,
                           nEvents, clicksOK, clickNotifs>>]_vars

C9Witness ==
    /\ call.op = "focus"
    /\ ~call.mounted
    /\ lifecycle = "created"
    /\ ~call.forwarded /\ ~call.threw
    /\ last = NoDispatch

\* C10: a pointer click while neither disabled nor loading emits exactly one
\* 'click' carrying the event, with preventDefault called iff prevent and
\* stopPropagation called iff stop; while disabled or loading
\* stopPropagation is never called; and the 'click' notifications carrying
\* a pointer event number the clicks received while not suppressed.
C10Theorem ==
    /\ clickNotifs = clicksOK
    /\ last.dispatched.kind = "click" =>
        IF Suppressed
        THEN ~last.event.propagationStopped
        ELSE /\ last.emits = <<[name |-> "click", event |-> last.event]>>
             /\ last.event.id = last.dispatched.id
             /\ last.event.defaultPrevented <=> props.prevent
             /\ last.event.propagationStopped <=> props.stop

C10Witness ==
    /\ last.dispatched.kind = "click"
    /\ ~Suppressed /\ props.stop /\ ~props.prevent
    /\ clicksOK = 2 /\ nEvents = 3
    /\ last.event.propagationStopped /\ ~last.event.defaultPrevented

----------------------------------------------------------------------------
\* Properties of the rendered attributes (specification SpecRender).

RequestedKind == IF Truthy(props.tag) THEN props.tag[1] ELSE "button"
DefaultKindRequested == ~Truthy(props.tag) \/ props.tag = Some("button")

\* C3 as stated: with an href of any string value, the empty string among
\* them, and the default kind requested, the rendered kind is 'a'; in every
\* other case it is the requested kind ('button' when none is requested).
C3Original ==
    IF props.href # None /\ DefaultKindRequested
    THEN vnode.is = "a"
    ELSE vnode.is = RequestedKind

\* C3 amended: with a non-empty href and the default kind requested, the
\* rendered kind is 'a'; in every other case, an empty-string href among
\* them, it is the requested kind ('button' when none is requested).
C3Amended ==
    IF props.href \notin {None, Some("")} /\ DefaultKindRequested
    THEN vnode.is = "a"
    ELSE vnode.is = RequestedKind

C3Witness ==
    /\ props.href = Some("")
    /\ props.tag = Some("button")
    /\ vnode.is = "button"

\* C4 as stated: tabindex is unset when the rendered element is 'button' or
\* 'a'; on every other rendered element it is 0 when not disabled and -1
\* when disabled.
C4Claim ==
    IF vnode.is \in {"button", "a"}
    THEN vnode.tabindex = None
    ELSE vnode.tabindex = (IF props.disabled THEN Some(-1) ELSE Some(0))

\* C5 as stated: the role is present, with value 'button', if and only if
\* the rendered kind is neither 'button' nor 'a'.
C5Claim ==
    /\ vnode.role # None <=> vnode.is \notin {"button", "a"}
    /\ vnode.role # None => vnode.role = Some("button")

NativeButtonSemantics ==
    /\ vnode.is = "button"
    /\ vnode.type = props.type
    /\ vnode.name = props.name
    /\ vnode.value = props.value
    /\ vnode.disabled = Some(props.disabled)
    /\ vnode.role = None

NativeLinkSemantics ==
    /\ vnode.is = "a"
    /\ vnode.type = None
    /\ vnode.disabled = None
    /\ vnode.role = None

SyntheticSemantics ==
    /\ vnode.role = Some("button")
    /\ vnode.type = None

\* C6 as stated: exactly one of native-button, native-link and synthetic
\* semantics applies, and the type attribute is absent unless the rendered
\* kind is 'button'.
C6Claim ==
    /\ Cardinality({s \in {"button", "link", "synthetic"} :
            \/ s = "button" /\ NativeButtonSemantics
            \/ s = "link" /\ NativeLinkSemantics
            \/ s = "synthetic" /\ SyntheticSemantics}) = 1
    /\ vnode.is # "button" => vnode.type = None

\* The whitespace-separated tokens of the relation strings of the model.
RelTokens(s) ==
    CASE s = "" -> {}
      [] s = "noopener noreferrer" -> {"noopener", "noreferrer"}
      [] OTHER -> {s}

ExplicitRel == props.rel # None /\ props.rel # Some("")

\* C8: with target '_blank' and no explicit (non-empty) rel, the computed
\* rel contains the tokens 'noopener' and 'noreferrer'; an explicit
\* non-empty rel is used unchanged; otherwise the rel is unset.
C8Theorem ==
    /\ (props.target = Some("_blank") /\ ~ExplicitRel) =>
          /\ vnode.rel # None
          /\ {"noopener", "noreferrer"} \subseteq RelTokens(vnode.rel[1])
    /\ ExplicitRel => vnode.rel = props.rel
    /\ (props.target # Some("_blank") /\ ~ExplicitRel) => vnode.rel = None

C8Witness ==
    /\ props.target = Some("_blank")
    /\ props.rel = None
    /\ vnode.rel = Some("noopener noreferrer")

====
